---- MODULE Spec2Model ----
\* Payment / enrollment lifecycle of the Worldpedia Education backend:
\* PaymentService (createTransaction, verifyPayment, processWebhook) and the
\* EnrollmentService operations that create and advance the Enrollments the
\* Payments refer to.  The store is MongoDB through mongoose: a Payment
\* collection with unique indexes on transactionId and orderId, and an
\* Enrollment collection.
EXTENDS Integers, Sequences, FiniteSets, TLC

VARIABLES
  payments,     \* the Payment collection, in insertion (natural) order
  enrollments,  \* the Enrollment collection: _id -> document
  courses,      \* the Course collection: _id -> document
  now,          \* the clock read by Date.now() / new Date(), in milliseconds
  last,         \* what the most recent service call did and returned
  procs         \* the calls in flight: each one's position and local values

vars == <<payments, enrollments, courses, now, last, procs>>

\* ---------------------------------------------------------------- bounds

MaxPayments == 2
MaxTime == 2
Capacity == 2

\* ---------------------------------------------------------------- values

Null == "null"
Undefined == "undefined"
\* a Date field holding null, a settlement_time the gateway left out
NoDate == 0

MinAmount == 1000
MaxAmount == 999999999

PENDING == "pending"
SETTLEMENT == "settlement"
CAPTURE == "capture"
DENY == "deny"
CANCEL == "cancel"
EXPIRE == "expire"
REFUND == "refund"
PARTIAL_REFUND == "partial_refund"
FAILED == "failed"
COMPLETED == "completed"

\* the values of the PaymentStatus enum
PaymentStatus ==
  {PENDING, SETTLEMENT, CAPTURE, DENY, CANCEL, EXPIRE, REFUND, PARTIAL_REFUND, FAILED,
   COMPLETED}

Users == {"u1"}
Students == {"s1"}
Courses == {"c1"}
TransactionIds == {"t1", "t2"}
\* _id values mongoose hands out to new Enrollments, in order
EnrollmentIds == <<"e1", "e2">>
\* an ObjectId that names no Enrollment
DanglingId == "e9"

\* ---------------------------------------------------------------- store

\* a lookup by transactionId alone
FindByTransactionId(ps, orderId, transactionId) ==
  IF \E i \in DOMAIN ps : ps[i].transactionId = transactionId
  THEN CHOOSE i \in DOMAIN ps : ps[i].transactionId = transactionId
  ELSE 0

\* a lookup that returns the first document whatever the filter
FindFirst(ps, orderId, transactionId) == IF ps = <<>> THEN 0 ELSE 1

\* Payment.findOne({ $or: [{ orderId }, { transactionId }] }): the first
\* document in natural order that matches, as an index into the collection;
\* 0 stands for null.
FindOne(ps, orderId, transactionId) ==
  LET Match(d) == d.orderId = orderId \/ d.transactionId = transactionId
  IN  IF \E i \in DOMAIN ps : Match(ps[i])
      THEN CHOOSE i \in DOMAIN ps : Match(ps[i]) /\ \A j \in 1..(i - 1) : ~Match(ps[j])
      ELSE 0

\* a collection without the unique indexes
NoUniqueIndex(ps, doc) == FALSE

\* The unique indexes of paymentSchema: a save is rejected (E11000) when the
\* document's transactionId or orderId is already in the collection.
DuplicateKey(ps, doc) ==
  \E i \in DOMAIN ps :
    ps[i].transactionId = doc.transactionId \/ ps[i].orderId = doc.orderId

\* ---------------------------------------------------------------- identifiers

\* uuidv4(): a transactionId; ids are pairs so that a transactionId and an
\* orderId can be compared by the $or lookups.
Uuid(x) == <<x, 0>>

\* `${request.userId}-${Date.now()}`
OrderIdOf(userId, t) == <<userId, t>>

NoId == <<"none", 0>>

\* ---------------------------------------------------------------- session

\* session.commitTransaction(): the writes made under the session become the
\* collection.
CommitTransaction(before, written) == written

\* an abort that leaves the session's writes in the collection
AbortKeepsWrites(before, written) == written

\* session.abortTransaction(): the writes made under the session are dropped.
AbortTransaction(before, written) == before

\* ---------------------------------------------------------------- validation

\* validateTransactionRequest(request).valid: the shape of the payload.
validateTransactionRequest(request) == request.shape

\* validateAmount(amount).valid
validateAmount(amount) == amount >= MinAmount /\ amount <= MaxAmount

\* an eligibility check that excludes the lower bound
EligibleAboveMinimum(amount) == amount > 1000 /\ amount <= 999999999

\* isPaymentEligible(amount)
isPaymentEligible(amount) == amount >= 1000 /\ amount <= 999999999

\* mapMidtransStatus(transaction_status, fraud_status)
mapMidtransStatus(transactionStatus, fraudStatus) ==
  CASE transactionStatus = "capture" ->
         IF fraudStatus = "accept" THEN CAPTURE ELSE PENDING
    [] transactionStatus = "settlement" -> SETTLEMENT
    [] transactionStatus = "pending" -> PENDING
    [] transactionStatus = "deny" -> DENY
    [] transactionStatus = "cancel" -> CANCEL
    [] transactionStatus = "expire" -> EXPIRE
    [] transactionStatus = "refund" -> REFUND
    [] transactionStatus = "partial_refund" -> PARTIAL_REFUND
    [] OTHER -> FAILED

\* ---------------------------------------------------------------- results

\* What a call returned and did: ok (resolved or threw), the error (its kind,
\* or the awaited call that rejected), the
\* collections it leaves, the documents it changed in the store, whether the
\* gateway was called, how its session ended, the Payment it worked on (index,
\* 0 for none) and the mapped status.
Outcome(ok, err, ps, es, wrote, gateway, txn, pi, st) ==
  [ok |-> ok, err |-> err, payments |-> ps, enrollments |-> es, wrote |-> wrote,
   gateway |-> gateway, txn |-> txn, pi |-> pi, st |-> st]

\* ---------------------------------------------------------------- createTransaction

\* what snapClient.createTransaction(parameter) resolves to
SnapResult == [token |-> "tok", redirect_url |-> "url"]

NewPayment(request, transactionId, orderId, midtransResult) ==
  [transactionId |-> transactionId,
   orderId |-> orderId,
   userId |-> request.userId,
   enrollmentId |-> request.enrollmentId,
   amount |-> request.amount,
   status |-> PENDING,
   paymentMethod |-> "unknown",
   \* the constructor is given snapToken, which is no path of paymentSchema
   midtransToken |-> Null,
   redirectUrl |-> midtransResult.redirect_url,
   paidAt |-> NoDate]

\* createTransaction(request), with uuidv4() returning uuid at time t; failAt
\* names the awaited call that rejects ("none": none does).
createTransaction(ps, es, request, uuid, t, failAt) ==
  LET transactionId == Uuid(uuid)
      orderId == OrderIdOf(request.userId, t)
      midtransResult == SnapResult
      payment == NewPayment(request, transactionId, orderId, midtransResult)
      saved == Append(ps, payment)
      Throw(err, gateway, written) ==
        Outcome(FALSE, err, AbortTransaction(ps, written), es,
                IF AbortTransaction(ps, written) = ps THEN {} ELSE {"payment"},
                gateway, "aborted", 0, PENDING)
  IN  IF ~validateTransactionRequest(request) THEN Throw("ValidationError", FALSE, ps)
      ELSE IF ~validateAmount(request.amount) THEN Throw("ValidationError", FALSE, ps)
      ELSE IF request.enrollmentId = Null THEN Throw("ValidationError", FALSE, ps)
      ELSE IF failAt = "gateway" THEN Throw("GatewayError", TRUE, ps)
      ELSE IF failAt = "save" THEN Throw("save", TRUE, ps)
      ELSE IF DuplicateKey(ps, payment) THEN Throw("DuplicateKey", TRUE, ps)
      ELSE IF failAt = "commit" THEN Throw("commit", TRUE, saved)
      ELSE Outcome(TRUE, Null, CommitTransaction(ps, saved), es, {"payment"},
                   TRUE, "committed", Len(saved), PENDING)

\* what a successful createTransaction returns for the gateway result
CreatePaymentResponse(midtransResult) ==
  [snapToken |-> midtransResult.token, redirectUrl |-> midtransResult.redirect_url]

\* TransactionService.getTransaction(transactionId): the stored Payment found
\* by transactionId or orderId, mapped to TransactionData; Null when none is
getTransaction(ps, transactionId) ==
  LET i == FindOne(ps, transactionId, transactionId)
  IN  IF i = 0 THEN Null
      ELSE [transactionId |-> ps[i].transactionId,
            orderId |-> ps[i].orderId,
            amount |-> ps[i].amount,
            status |-> ps[i].status,
            snapToken |-> ps[i].midtransToken,
            redirectUrl |-> ps[i].redirectUrl]

\* ---------------------------------------------------------------- processWebhook

IsSettled(status) == status = SETTLEMENT \/ status = CAPTURE

IsCancelled(status) == status = CANCEL \/ status = EXPIRE

\* a webhook without the short-circuit
WebhookNeverUnchanged(payment, newStatus) == FALSE

\* payment.status === newStatus: the redelivery short-circuit
WebhookStatusUnchanged(payment, newStatus) == payment.status = newStatus

\* a cancellation that only needs the Enrollment to exist
WebhookAlwaysCancels(es, eid) == eid \in DOMAIN es

\* enrollment && enrollment.status === 'pending_payment'
WebhookMayCancel(es, eid) == eid \in DOMAIN es /\ es[eid].status = "pending_payment"

\* enrollment.status = 'active'; enrollment.progress = 0
Activate(enrollment) == [enrollment EXCEPT !.status = "active", !.progress = 0]

\* the documents a call changed in the store
Wrote(ps, es, ps2, es2, pw, ew) ==
  (IF ps2 # ps \/ pw THEN {"payment"} ELSE {}) \cup
  (IF es2 # es \/ ew THEN {"enrollment"} ELSE {})

\* an update that leaves paidAt alone
WebhookUpdateWithoutPaidAt(payment, newStatus, payload, t) ==
  [payment EXCEPT !.status = newStatus]

\* payment.status = newStatus; payment.paymentMethod = payment_type ||
\* payment.paymentMethod; payment.paidAt = new Date() when settling
WebhookPaymentUpdate(payment, newStatus, payload, t) ==
  [payment EXCEPT
     !.status = newStatus,
     !.paymentMethod =
       IF payload.payment_type # Undefined THEN payload.payment_type ELSE @,
     !.paidAt = IF IsSettled(newStatus) THEN t ELSE @]

\* processWebhook(payload) at time t; failAt names the awaited store call that
\* rejects ("none": none does).
processWebhook(ps, es, t, payload, failAt) ==
  LET newStatus == mapMidtransStatus(payload.transaction_status, payload.fraud_status)
      i == FindOne(ps, payload.order_id, payload.transaction_id)
      payment == WebhookPaymentUpdate(ps[i], newStatus, payload, t)
      psW == [ps EXCEPT ![i] = payment]
      eid == ps[i].enrollmentId
      lookup == IsSettled(newStatus) \/ IsCancelled(newStatus)
      saveEnrollment ==
        \/ IsSettled(newStatus) /\ eid \in DOMAIN es
        \/ IsCancelled(newStatus) /\ WebhookMayCancel(es, eid)
      esW == IF ~saveEnrollment THEN es
             ELSE IF IsSettled(newStatus) THEN [es EXCEPT ![eid] = Activate(@)]
             ELSE [es EXCEPT ![eid].status = "cancelled"]
      Throw(err, pw, ew) ==
        LET ps2 == AbortTransaction(ps, pw)
            es2 == AbortTransaction(es, ew)
        IN  Outcome(FALSE, err, ps2, es2, Wrote(ps, es, ps2, es2, FALSE, FALSE),
                    FALSE, "aborted", i, newStatus)
  IN  IF failAt = "findPayment" THEN Throw(failAt, ps, es)
      ELSE IF i = 0 THEN Throw("NotFoundError", ps, es)
      ELSE IF WebhookStatusUnchanged(ps[i], newStatus) THEN
        IF failAt = "commit" THEN Throw(failAt, ps, es)
        ELSE Outcome(TRUE, Null, ps, es, {}, FALSE, "committed", i, newStatus)
      ELSE IF failAt = "savePayment" THEN Throw(failAt, ps, es)
      ELSE IF lookup /\ failAt = "findEnrollment" THEN Throw(failAt, psW, es)
      ELSE IF saveEnrollment /\ failAt = "saveEnrollment" THEN Throw(failAt, psW, es)
      ELSE IF failAt = "commit" THEN Throw(failAt, psW, esW)
      ELSE Outcome(TRUE, Null, CommitTransaction(ps, psW), CommitTransaction(es, esW),
                   Wrote(ps, es, psW, esW, TRUE, saveEnrollment),
                   FALSE, "committed", i, newStatus)

\* ---------------------------------------------------------------- verifyPayment

\* a verify that updates whenever it finds the Payment
VerifyAlwaysUpdates(ps, i, status) == i # 0

\* payment && payment.status !== status
VerifyMustUpdate(ps, i, status) == i # 0 /\ ps[i].status # status

\* Enrollment.findByIdAndUpdate(id, {status: 'cancelled'}): no condition on
\* the current status
VerifyCancel(enrollment) == [enrollment EXCEPT !.status = "cancelled"]

\* an update that leaves the stored status
VerifyUpdateKeepsStatus(payment, status, result, t) == payment

\* payment.status = status; payment.paymentMethod = result.payment_type ||
\* payment.paymentMethod; payment.paidAt = settlement_time or new Date() when
\* settling
VerifyPaymentUpdate(payment, status, result, t) ==
  [payment EXCEPT
     !.status = status,
     !.paymentMethod =
       IF result.payment_type # Undefined THEN result.payment_type ELSE @,
     !.paidAt =
       IF ~IsSettled(status) THEN @
       ELSE IF result.settlement_time # NoDate THEN result.settlement_time ELSE t]

\* verifyPayment(transactionId) at time t, the gateway answering result;
\* failAt names the awaited call that rejects ("none": none does).
verifyPayment(ps, es, t, transactionId, result, failAt) ==
  LET status == mapMidtransStatus(result.transaction_status, result.fraud_status)
      i == FindOne(ps, transactionId, transactionId)
      payment == VerifyPaymentUpdate(ps[i], status, result, t)
      psW == [ps EXCEPT ![i] = payment]
      eid == ps[i].enrollmentId
      update == IsSettled(status) \/ IsCancelled(status)
      found == update /\ eid \in DOMAIN es
      esW == IF ~found THEN es
             ELSE IF IsSettled(status) THEN [es EXCEPT ![eid] = Activate(@)]
             ELSE [es EXCEPT ![eid] = VerifyCancel(@)]
  IN  IF failAt = "gateway"
      THEN Outcome(FALSE, "GatewayError", ps, es, {}, TRUE, "none", 0, PENDING)
      ELSE IF failAt = "findPayment"
      THEN Outcome(FALSE, failAt, ps, es, {}, TRUE, "none", 0, status)
      ELSE IF ~VerifyMustUpdate(ps, i, status)
      THEN Outcome(TRUE, Null, ps, es, {}, TRUE, "none", i, status)
      ELSE IF update /\ failAt = "updateEnrollment"
      THEN Outcome(FALSE, failAt, ps, es, {}, TRUE, "none", i, status)
      ELSE IF failAt = "savePayment"
      THEN Outcome(FALSE, failAt, ps, esW, Wrote(ps, es, ps, esW, FALSE, found),
                   TRUE, "none", i, status)
      ELSE Outcome(TRUE, Null, psW, esW, Wrote(ps, es, psW, esW, TRUE, found),
                   TRUE, "none", i, status)

\* ---------------------------------------------------------------- EnrollmentService

\* EnrollmentService.createEnrollment(studentId, courseId)
createEnrollment(es, cs, studentId, courseId) ==
  LET id == EnrollmentIds[Cardinality(DOMAIN es) + 1]
      enrollment == [studentId |-> studentId, courseId |-> courseId,
                     status |-> "pending_payment", progress |-> 0]
      enrollmentCount == Cardinality({e \in DOMAIN es : es[e].courseId = courseId})
      Throw(err) == [ok |-> FALSE, err |-> err, enrollments |-> es, courses |-> cs]
  IN  IF studentId \notin Students THEN Throw("NotFoundError")
      ELSE IF courseId \notin DOMAIN cs THEN Throw("NotFoundError")
      ELSE IF \E e \in DOMAIN es :
                es[e].studentId = studentId /\ es[e].courseId = courseId
      THEN Throw("ConflictError")
      ELSE IF enrollmentCount >= cs[courseId].capacity THEN Throw("ConflictError")
      ELSE [ok |-> TRUE, err |-> Null,
            enrollments |-> [e \in DOMAIN es \cup {id} |->
                               IF e = id THEN enrollment ELSE es[e]],
            courses |-> [cs EXCEPT ![courseId].totalEnrollments = @ + 1]]

\* EnrollmentService.updateProgress(enrollmentId, progress)
updateProgress(es, enrollmentId, progress) ==
  IF progress < 0 \/ progress > 100
  THEN [ok |-> FALSE, err |-> "Error", enrollments |-> es]
  ELSE IF enrollmentId \notin DOMAIN es
  THEN [ok |-> FALSE, err |-> "NotFoundError", enrollments |-> es]
  ELSE [ok |-> TRUE, err |-> Null,
        enrollments |->
          [es EXCEPT ![enrollmentId] =
             [@ EXCEPT !.progress = progress,
                       !.status = IF progress = 100 /\ @ # "completed"
                                  THEN "completed" ELSE @]]]

\* EnrollmentService.updateEnrollmentStatus(enrollmentId, status)
updateEnrollmentStatus(es, enrollmentId, status) ==
  IF enrollmentId \notin DOMAIN es
  THEN [ok |-> FALSE, err |-> "NotFoundError", enrollments |-> es]
  ELSE IF status \notin {"pending_payment", "active", "completed", "cancelled"}
  THEN [ok |-> FALSE, err |-> "Error", enrollments |-> es]
  ELSE [ok |-> TRUE, err |-> Null,
        enrollments |-> [es EXCEPT ![enrollmentId].status = status]]

\* ---------------------------------------------------------------- cancel, expire, refund

\* a filter that also matches the orderId
FindOneByEitherId(ps, transactionId) == FindOne(ps, transactionId, transactionId)

\* Payment.findOneAndUpdate({ transactionId }, ...): the document it matches
FindOneByTransactionId(ps, transactionId) ==
  IF \E i \in DOMAIN ps : ps[i].transactionId = transactionId
  THEN CHOOSE i \in DOMAIN ps :
         /\ ps[i].transactionId = transactionId
         /\ \A j \in 1..(i - 1) : ps[j].transactionId # transactionId
  ELSE 0

\* an update made before the gateway has answered
UpdateBeforeGateway(ps, i, status, failAt) ==
  IF i = 0 \/ failAt = "update" THEN ps ELSE [ps EXCEPT ![i].status = status]

\* await coreApi.transaction.<op>(transactionId); await
\* Payment.findOneAndUpdate({ transactionId }, { status }): the collection the
\* two awaited calls leave, failAt naming the one that rejects
UpdateAfterGateway(ps, i, status, failAt) ==
  IF i = 0 \/ failAt # "none" THEN ps ELSE [ps EXCEPT ![i].status = status]

\* an update that also cancels the Enrollment the Payment names
UpdateCancelsEnrollment(ps, es, transactionId, status, failAt) ==
  LET i == FindOneByTransactionId(ps, transactionId)
      ps2 == UpdateAfterGateway(ps, i, status, failAt)
      es2 == IF i # 0 /\ failAt = "none" /\ ps[i].enrollmentId \in DOMAIN es
             THEN [es EXCEPT ![ps[i].enrollmentId].status = "cancelled"] ELSE es
  IN  Outcome(failAt = "none", IF failAt = "none" THEN Null ELSE failAt,
              ps2, es2, Wrote(ps, es, ps2, es2, FALSE, FALSE), TRUE, "none",
              IF failAt = "none" THEN i ELSE 0, status)

\* the body shared by cancelTransaction, expireTransaction and
\* refundTransaction
GatewayThenUpdate(ps, es, transactionId, status, failAt) ==
  LET i == FindOneByTransactionId(ps, transactionId)
      ps2 == UpdateAfterGateway(ps, i, status, failAt)
  IN  Outcome(failAt = "none",
              IF failAt = "gateway" THEN "GatewayError"
              ELSE IF failAt = "none" THEN Null ELSE failAt,
              ps2, es, Wrote(ps, es, ps2, es, FALSE, FALSE), TRUE, "none",
              IF failAt = "none" THEN i ELSE 0, status)

\* cancelTransaction(transactionId)
cancelTransaction(ps, es, transactionId, failAt) ==
  GatewayThenUpdate(ps, es, transactionId, CANCEL, failAt)

\* expireTransaction(transactionId)
expireTransaction(ps, es, transactionId, failAt) ==
  GatewayThenUpdate(ps, es, transactionId, EXPIRE, failAt)

\* refundTransaction(transactionId, amount, reason); amount 0 stands for an
\* amount that was not given (`amount ?` is false of both)
refundTransaction(ps, es, transactionId, amount, failAt) ==
  GatewayThenUpdate(ps, es, transactionId,
                    IF amount # 0 THEN PARTIAL_REFUND ELSE REFUND, failAt)

\* ---------------------------------------------------------------- legacy PaymentService

\* PaymentService.updatePaymentStatus(paymentId, status, transactionId) of the
\* legacy service at time t; paymentId is the Payment's place in the collection,
\* and NoId stands for a transactionId that was not given.
\* The Enrollment is saved before the Payment; the Payment's save validates
\* the status against the enum and the transactionId against the unique index.
updatePaymentStatus(ps, es, t, paymentId, status, transactionId) ==
  LET found == paymentId \in DOMAIN ps
      payment == [ps[paymentId] EXCEPT
                    !.status = status,
                    !.transactionId = IF transactionId # NoId THEN transactionId ELSE @,
                    !.paidAt = IF status = COMPLETED THEN t ELSE @]
      eid == ps[paymentId].enrollmentId
      activate == status = COMPLETED /\ eid \in DOMAIN es
      es2 == IF activate THEN [es EXCEPT ![eid].status = "active"] ELSE es
      rejected ==
        \/ status \notin PaymentStatus
        \/ \E j \in DOMAIN ps \ {paymentId} : ps[j].transactionId = payment.transactionId
      ps2 == [ps EXCEPT ![paymentId] = payment]
  IN  IF ~found
      THEN Outcome(FALSE, "NotFoundError", ps, es, {}, FALSE, "none", 0, PENDING)
      ELSE IF status \notin {"pending", "completed", "failed", "cancelled"}
      THEN Outcome(FALSE, "Error", ps, es, {}, FALSE, "none", paymentId, PENDING)
      ELSE IF rejected
      THEN Outcome(FALSE, "save", ps, es2, Wrote(ps, es, ps, es2, FALSE, activate),
                   FALSE, "none", paymentId, status)
      ELSE Outcome(TRUE, Null, ps2, es2, Wrote(ps, es, ps2, es2, TRUE, activate),
                   FALSE, "none", paymentId, status)

\* ---------------------------------------------------------------- inputs

\* what the gateway reports: (transaction_status, fraud_status)
GatewayStatuses ==
  {<<"capture", "accept">>, <<"capture", "challenge">>, <<"capture", Undefined>>,
   <<"settlement", Undefined>>, <<"settlement", "accept">>, <<"pending", Undefined>>,
   <<"deny", Undefined>>, <<"deny", "deny">>, <<"cancel", Undefined>>,
   <<"expire", Undefined>>, <<"refund", Undefined>>, <<"partial_refund", Undefined>>,
   <<"unknown_code", Undefined>>, <<"authorize", "accept">>, <<"", Undefined>>}

\* the statuses the calls of Next are given
DrivenStatuses ==
  {<<"capture", "accept">>, <<"settlement", Undefined>>, <<"pending", Undefined>>,
   <<"deny", Undefined>>, <<"cancel", Undefined>>, <<"expire", Undefined>>}

Amounts == {0, 500, 999, 1000, 150000, 999999999, 1000000000}

KnownTransactionIds == {payments[i].transactionId : i \in DOMAIN payments}
KnownOrderIds == {payments[i].orderId : i \in DOMAIN payments}

\* every createTransaction request
Requests ==
  [userId : Users, amount : Amounts, shape : BOOLEAN,
   enrollmentId : DOMAIN enrollments \cup {DanglingId, Null}]

\* the gateway's answers to transaction.status(id)
GatewayResults(statuses, types, times) ==
  {[transaction_status |-> s[1], fraud_status |-> s[2], payment_type |-> ty,
    settlement_time |-> tm] : s \in statuses, ty \in types, tm \in times}

\* the notification bodies the webhook endpoint receives
Payloads(orders, txns, statuses, types) ==
  {[order_id |-> o, transaction_id |-> x, transaction_status |-> s[1],
    fraud_status |-> s[2], payment_type |-> ty] :
      o \in orders, x \in txns, s \in statuses, ty \in types}

CreateFailures == {"none", "gateway", "save", "commit"}
AdminFailures == {"none", "gateway", "update"}
WebhookFailures ==
  {"none", "findPayment", "savePayment", "findEnrollment", "saveEnrollment", "commit"}
VerifyFailures == {"none", "gateway", "findPayment", "updateEnrollment", "savePayment"}

\* ---------------------------------------------------------------- actions

\* the request handlers that may be in flight together
Procs == {1, 2}

\* a handler with no call in flight
Idle ==
  [op |-> "none", input |-> <<>>, pc |-> "done", i |-> 0, doc |-> <<>>,
   snapshot |-> <<>>, held |-> {}, result |-> "none", wrote |-> {},
   raced |-> FALSE, overwrote |-> FALSE]

\* the request recorded for a call that takes none
NoRequest == [userId |-> "none", amount |-> 0, shape |-> FALSE, enrollmentId |-> Null]

NoCall ==
  [op |-> "none", ok |-> TRUE, err |-> Null, wrote |-> {}, gateway |-> FALSE,
   txn |-> "none", pi |-> 0, st |-> PENDING, rep |-> FALSE, req |-> NoRequest,
   key |-> <<NoId, NoId>>, raw |-> <<"none", Undefined>>]

\* The record of a call: its outcome r, the request it was given, the
\* identifiers (orderId, transactionId) it looked its Payment up by, the
\* (transaction_status, fraud_status) the gateway gave it, and rep,
\* whether it repeats the call before it (same operation, Payment and status).
Called(op, r, request, key, raw) ==
  [op |-> op, ok |-> r.ok, err |-> r.err, wrote |-> r.wrote, gateway |-> r.gateway,
   txn |-> r.txn, pi |-> r.pi, st |-> r.st,
   rep |-> last.op = op /\ last.ok /\ last.pi = r.pi /\ last.st = r.st,
   req |-> request, key |-> key, raw |-> raw]

Init ==
  /\ payments = <<>>
  /\ enrollments = <<>>
  /\ courses = [c \in Courses |-> [capacity |-> Capacity, totalEnrollments |-> 0]]
  /\ now = 1
  /\ last = NoCall
  /\ procs = [p \in Procs |-> Idle]

Tick ==
  /\ now < MaxTime
  /\ now' = now + 1
  /\ UNCHANGED <<payments, enrollments, courses, last, procs>>

CreateEnrollment(studentId, courseId) ==
  /\ Cardinality(DOMAIN enrollments) < Len(EnrollmentIds)
  /\ LET r == createEnrollment(enrollments, courses, studentId, courseId)
     IN  /\ enrollments' = r.enrollments
         /\ courses' = r.courses
         /\ last' = [NoCall EXCEPT !.op = "createEnrollment", !.ok = r.ok, !.err = r.err]
  /\ UNCHANGED <<payments, now, procs>>

UpdateProgress(enrollmentId, progress) ==
  /\ LET r == updateProgress(enrollments, enrollmentId, progress)
     IN  /\ enrollments' = r.enrollments
         /\ last' = [NoCall EXCEPT !.op = "updateProgress", !.ok = r.ok, !.err = r.err]
  /\ UNCHANGED <<payments, courses, now, procs>>

CreateTransaction(request, uuid, failAt) ==
  /\ Len(payments) < MaxPayments
  /\ LET r == createTransaction(payments, enrollments, request, uuid, now, failAt)
     IN  /\ payments' = r.payments
         /\ last' = Called("createTransaction", r, request, <<NoId, NoId>>,
                         <<"none", Undefined>>)
  /\ UNCHANGED <<enrollments, courses, now, procs>>

VerifyPayment(transactionId, result, failAt) ==
  /\ LET r == verifyPayment(payments, enrollments, now, transactionId, result, failAt)
     IN  /\ payments' = r.payments
         /\ enrollments' = r.enrollments
         /\ last' = Called("verifyPayment", r, NoRequest, <<transactionId, transactionId>>,
                         <<result.transaction_status, result.fraud_status>>)
  /\ UNCHANGED <<courses, now, procs>>

ProcessWebhook(payload, failAt) ==
  /\ LET r == processWebhook(payments, enrollments, now, payload, failAt)
     IN  /\ payments' = r.payments
         /\ enrollments' = r.enrollments
         /\ last' = Called("processWebhook", r, NoRequest,
                         <<payload.order_id, payload.transaction_id>>,
                         <<payload.transaction_status, payload.fraud_status>>)
  /\ UNCHANGED <<courses, now, procs>>

UpdateEnrollmentStatus(enrollmentId, status) ==
  /\ LET r == updateEnrollmentStatus(enrollments, enrollmentId, status)
     IN  /\ enrollments' = r.enrollments
         /\ last' = [NoCall EXCEPT !.op = "updateEnrollmentStatus", !.ok = r.ok,
                                   !.err = r.err]
  /\ UNCHANGED <<payments, courses, now, procs>>

UpdatePaymentStatus(paymentId, status, transactionId) ==
  /\ LET r == updatePaymentStatus(payments, enrollments, now, paymentId, status,
                                  transactionId)
     IN  /\ payments' = r.payments
         /\ enrollments' = r.enrollments
         /\ last' = Called("updatePaymentStatus", r, NoRequest, <<NoId, NoId>>,
                           <<status, Undefined>>)
  /\ UNCHANGED <<courses, now, procs>>

CancelTransaction(transactionId, failAt) ==
  /\ LET r == cancelTransaction(payments, enrollments, transactionId, failAt)
     IN  /\ payments' = r.payments
         /\ enrollments' = r.enrollments
         /\ last' = Called("cancelTransaction", r, NoRequest,
                           <<NoId, transactionId>>, <<"none", Undefined>>)
  /\ UNCHANGED <<courses, now, procs>>

ExpireTransaction(transactionId, failAt) ==
  /\ LET r == expireTransaction(payments, enrollments, transactionId, failAt)
     IN  /\ payments' = r.payments
         /\ enrollments' = r.enrollments
         /\ last' = Called("expireTransaction", r, NoRequest,
                           <<NoId, transactionId>>, <<"none", Undefined>>)
  /\ UNCHANGED <<courses, now, procs>>

RefundTransaction(transactionId, amount, failAt) ==
  /\ LET r == refundTransaction(payments, enrollments, transactionId, amount, failAt)
     IN  /\ payments' = r.payments
         /\ enrollments' = r.enrollments
         /\ last' = Called("refundTransaction", r, [NoRequest EXCEPT !.amount = amount],
                           <<NoId, transactionId>>, <<"none", Undefined>>)
  /\ UNCHANGED <<courses, now, procs>>

\* One Payment and the Enrollments it may name, from their creation on.
Next ==
  \/ \E s \in Students \cup {"s0"}, c \in Courses : CreateEnrollment(s, c)
  \/ \E e \in DOMAIN enrollments, p \in {50, 100} : UpdateProgress(e, p)
  \/ \E e \in DOMAIN enrollments \cup {DanglingId} :
       /\ payments = <<>>
       /\ CreateTransaction([userId |-> "u1", amount |-> 150000, shape |-> TRUE,
                             enrollmentId |-> e], "t1", "none")
  \/ \E id \in KnownTransactionIds \cup KnownOrderIds \cup {NoId},
        result \in GatewayResults(DrivenStatuses, {"qris"}, {NoDate}),
        failAt \in VerifyFailures :
       VerifyPayment(id, result, failAt)
  \/ \E payload \in Payloads(KnownOrderIds \cup {NoId}, {NoId}, DrivenStatuses, {"qris"}),
        failAt \in WebhookFailures :
       ProcessWebhook(payload, failAt)

Spec == Init /\ [][Next]_vars

\* The operations that set a status directly: the administrative Payment
\* operations, the legacy service and the EnrollmentService, on one Payment
\* and its Enrollment.
AdminNext ==
  \/ \E s \in Students, c \in Courses : CreateEnrollment(s, c)
  \/ \E e \in DOMAIN enrollments :
       /\ payments = <<>>
       /\ CreateTransaction([userId |-> "u1", amount |-> 150000, shape |-> TRUE,
                             enrollmentId |-> e], "t1", "none")
  \/ \E e \in DOMAIN enrollments, p \in {50, 100} : UpdateProgress(e, p)
  \/ \E e \in DOMAIN enrollments \cup {DanglingId},
        status \in {"pending_payment", "active", "completed", "cancelled", "paused"} :
       UpdateEnrollmentStatus(e, status)
  \/ \E i \in 1..MaxPayments,
        status \in {"pending", "completed", "failed", "cancelled", "expired"},
        transactionId \in {NoId, Uuid("t2")} :
       UpdatePaymentStatus(i, status, transactionId)
  \/ \E payload \in Payloads(KnownOrderIds, {NoId},
                             {<<"settlement", Undefined>>, <<"cancel", Undefined>>},
                             {"qris"}) :
       ProcessWebhook(payload, "none")
  \/ \E id \in KnownTransactionIds \cup KnownOrderIds \cup {NoId}, failAt \in AdminFailures :
       CancelTransaction(id, failAt)
  \/ \E id \in KnownTransactionIds \cup KnownOrderIds \cup {NoId}, failAt \in AdminFailures :
       ExpireTransaction(id, failAt)
  \/ \E id \in KnownTransactionIds \cup KnownOrderIds \cup {NoId}, amount \in {0, 50000},
        failAt \in AdminFailures :
       RefundTransaction(id, amount, failAt)

AdminSpec == Init /\ [][AdminNext]_vars

\* Every createTransaction request, at every time of the clock.
CreateNext ==
  \/ Tick
  \/ \E s \in Students, c \in Courses : CreateEnrollment(s, c)
  \/ \E request \in Requests, uuid \in TransactionIds, failAt \in CreateFailures :
       CreateTransaction(request, uuid, failAt)

CreateSpec == Init /\ [][CreateNext]_vars

\* the gateway statuses of PaySpec
PayStatuses ==
  {<<"settlement", Undefined>>, <<"capture", "accept">>, <<"pending", Undefined>>,
   <<"cancel", Undefined>>}

\* The operations of the Midtrans PaymentService on one Payment and its
\* Enrollment, at every time of the clock.
PayNext ==
  \/ Tick
  \/ CreateEnrollment("s1", "c1")
  \/ \E e \in DOMAIN enrollments :
       /\ payments = <<>>
       /\ CreateTransaction([userId |-> "u1", amount |-> 150000, shape |-> TRUE,
                             enrollmentId |-> e], "t1", "none")
  \/ \E id \in KnownTransactionIds,
        result \in GatewayResults(PayStatuses, {"qris"}, {NoDate, 1}),
        failAt \in {"none", "savePayment"} :
       VerifyPayment(id, result, failAt)
  \/ \E payload \in Payloads(KnownOrderIds, {NoId}, PayStatuses, {"qris"}),
        failAt \in {"none", "commit"} :
       ProcessWebhook(payload, failAt)
  \/ \E id \in KnownTransactionIds, failAt \in AdminFailures :
       CancelTransaction(id, failAt)
  \/ \E id \in KnownTransactionIds, failAt \in AdminFailures :
       ExpireTransaction(id, failAt)
  \/ \E id \in KnownTransactionIds, amount \in {0, 50000}, failAt \in AdminFailures :
       RefundTransaction(id, amount, failAt)

PaySpec == Init /\ [][PayNext]_vars

\* ---------------------------------------------------------------- calls in flight together
\* Two request handlers run as independent asynchronous tasks; each awaited
\* gateway or store call is one step.  A call's local values: its input, pc
\* (the awaited call it is about to make), i (the Payment it found), doc (its
\* in-memory Payment document), snapshot (the collections as it read them),
\* held (the documents it has written under its session and not yet committed),
\* result, and wrote (the documents it changed in the store).  The store here
\* holds one Payment and one Enrollment, named "payment" and "enrollment".

\* some other call holds an uncommitted write to the document
Locked(name, p) == \E q \in Procs \ {p} : name \in procs[q].held

\* a save outside any session: nothing rejects it
SaveNeverConflicts(current, snapshot, locked) == FALSE

\* document.save({ session }): rejected with a WriteConflict when another
\* session holds an uncommitted write to the document, or the document was
\* changed after this session's snapshot was taken
SaveConflicts(current, snapshot, locked) == locked \/ current # snapshot

ProcStatus(p) ==
  mapMidtransStatus(procs[p].input.transaction_status, procs[p].input.fraud_status)

\* catch: abortTransaction(); throw
Aborted(me) == [me EXCEPT !.pc = "done", !.result = "error", !.held = {}]

\* processWebhook: Payment.findOne(...).session(session) and the short-circuit
WebhookFindPayment(p) ==
  /\ procs[p].op = "processWebhook" /\ procs[p].pc = "findPayment"
  /\ LET payload == procs[p].input
         newStatus == ProcStatus(p)
         i == FindOne(payments, payload.order_id, payload.transaction_id)
     IN  procs' = [procs EXCEPT ![p] =
           IF i = 0 THEN Aborted(@)
           ELSE IF WebhookStatusUnchanged(payments[i], newStatus)
           THEN [@ EXCEPT !.pc = "commit", !.i = i,
                          !.snapshot = <<payments, enrollments>>]
           ELSE [@ EXCEPT !.pc = "savePayment", !.i = i,
                          !.snapshot = <<payments, enrollments>>,
                          !.doc = WebhookPaymentUpdate(payments[i], newStatus, payload, now)]]
  /\ UNCHANGED <<payments, enrollments, courses, now, last>>

\* processWebhook: payment.save({ session })
WebhookSavePayment(p) ==
  /\ procs[p].op = "processWebhook" /\ procs[p].pc = "savePayment"
  /\ LET me == procs[p]
     IN  procs' = [procs EXCEPT ![p] =
           IF SaveConflicts(payments[me.i], me.snapshot[1][me.i], Locked("payment", p))
           THEN Aborted(@)
           ELSE [@ EXCEPT !.held = @ \cup {"payment"},
                          !.pc = IF IsSettled(ProcStatus(p)) \/ IsCancelled(ProcStatus(p))
                                 THEN "findEnrollment" ELSE "commit"]]
  /\ UNCHANGED <<payments, enrollments, courses, now, last>>

\* processWebhook: Enrollment.findById(payment.enrollmentId).session(session)
WebhookFindEnrollment(p) ==
  /\ procs[p].op = "processWebhook" /\ procs[p].pc = "findEnrollment"
  /\ LET es == procs[p].snapshot[2]
         eid == procs[p].doc.enrollmentId
         save == \/ IsSettled(ProcStatus(p)) /\ eid \in DOMAIN es
                 \/ IsCancelled(ProcStatus(p)) /\ WebhookMayCancel(es, eid)
     IN  procs' = [procs EXCEPT ![p].pc = IF save THEN "saveEnrollment" ELSE "commit"]
  /\ UNCHANGED <<payments, enrollments, courses, now, last>>

\* processWebhook: the Enrollment document as the call sets it in memory
WebhookEnrollmentUpdate(p) ==
  LET enrollment == procs[p].snapshot[2][procs[p].doc.enrollmentId]
  IN  IF IsSettled(ProcStatus(p)) THEN Activate(enrollment)
      ELSE [enrollment EXCEPT !.status = "cancelled"]

\* processWebhook: enrollment.save({ session }); a document with no modified
\* path is not sent to the store
WebhookSaveEnrollment(p) ==
  /\ procs[p].op = "processWebhook" /\ procs[p].pc = "saveEnrollment"
  /\ LET me == procs[p]
         eid == me.doc.enrollmentId
     IN  procs' = [procs EXCEPT ![p] =
           IF WebhookEnrollmentUpdate(p) = me.snapshot[2][eid]
           THEN [@ EXCEPT !.pc = "commit"]
           ELSE IF SaveConflicts(enrollments[eid], me.snapshot[2][eid],
                                 Locked("enrollment", p))
           THEN Aborted(@)
           ELSE [@ EXCEPT !.held = @ \cup {"enrollment"}, !.pc = "commit"]]
  /\ UNCHANGED <<payments, enrollments, courses, now, last>>

\* processWebhook: session.commitTransaction()
WebhookCommit(p) ==
  /\ procs[p].op = "processWebhook" /\ procs[p].pc = "commit"
  /\ LET me == procs[p]
         eid == me.doc.enrollmentId
         changed == "payment" \in me.held
     IN  /\ payments' = IF "payment" \in me.held
                        THEN [payments EXCEPT ![me.i] = me.doc] ELSE payments
         /\ enrollments' =
              IF "enrollment" \in me.held
              THEN [enrollments EXCEPT ![eid] = WebhookEnrollmentUpdate(p)]
              ELSE enrollments
         /\ procs' = [q \in Procs |->
              IF q = p
              THEN [me EXCEPT !.pc = "done", !.result = "ok", !.wrote = me.held,
                              !.held = {}]
              ELSE [procs[q] EXCEPT !.raced =
                      @ \/ (/\ changed /\ procs[q].op = "verifyPayment"
                            /\ procs[q].pc \in {"findPayment", "updateEnrollment",
                                                "savePayment"})]]
  /\ UNCHANGED <<courses, now, last>>

\* verifyPayment: coreApi.transaction.status(transactionId)
VerifyGatewayStatus(p) ==
  /\ procs[p].op = "verifyPayment" /\ procs[p].pc = "gateway"
  /\ procs' = [procs EXCEPT ![p].pc = "findPayment"]
  /\ UNCHANGED <<payments, enrollments, courses, now, last>>

\* verifyPayment: Payment.findOne(...) and the in-memory update of the document
VerifyFindPayment(p) ==
  /\ procs[p].op = "verifyPayment" /\ procs[p].pc = "findPayment"
  /\ LET result == procs[p].input
         status == ProcStatus(p)
         i == FindOne(payments, result.id, result.id)
     IN  procs' = [procs EXCEPT ![p] =
           IF ~VerifyMustUpdate(payments, i, status)
           THEN [@ EXCEPT !.pc = "done", !.result = "ok", !.i = i]
           ELSE [@ EXCEPT !.i = i,
                          !.snapshot = <<payments, enrollments>>,
                          !.doc = VerifyPaymentUpdate(payments[i], status, result, now),
                          !.pc = IF IsSettled(status) \/ IsCancelled(status)
                                 THEN "updateEnrollment" ELSE "savePayment"]]
  /\ UNCHANGED <<payments, enrollments, courses, now, last>>

\* verifyPayment: Enrollment.findByIdAndUpdate(payment.enrollmentId, ...); it
\* waits while a session holds an uncommitted write to the Enrollment
VerifyUpdateEnrollment(p) ==
  /\ procs[p].op = "verifyPayment" /\ procs[p].pc = "updateEnrollment"
  /\ ~Locked("enrollment", p)
  /\ LET eid == procs[p].doc.enrollmentId
         found == eid \in DOMAIN enrollments
     IN  /\ enrollments' =
              IF ~found THEN enrollments
              ELSE IF IsSettled(ProcStatus(p))
              THEN [enrollments EXCEPT ![eid] = Activate(@)]
              ELSE [enrollments EXCEPT ![eid] = VerifyCancel(@)]
         /\ procs' = [procs EXCEPT ![p].pc = "savePayment",
                                   ![p].wrote = IF found THEN @ \cup {"enrollment"} ELSE @]
  /\ UNCHANGED <<payments, courses, now, last>>

\* verifyPayment: payment.save(), which sets the paths the call modified on the
\* stored document; it waits while a session holds an uncommitted write to it
VerifySavePayment(p) ==
  /\ procs[p].op = "verifyPayment" /\ procs[p].pc = "savePayment"
  /\ ~Locked("payment", p)
  /\ LET me == procs[p]
         read == me.snapshot[1][me.i]
     IN  /\ payments' = [payments EXCEPT ![me.i] =
              [@ EXCEPT !.status = me.doc.status,
                        !.paymentMethod =
                          IF me.doc.paymentMethod # read.paymentMethod
                          THEN me.doc.paymentMethod ELSE @,
                        !.paidAt =
                          IF me.doc.paidAt # read.paidAt THEN me.doc.paidAt ELSE @]]
         /\ procs' = [procs EXCEPT ![p] =
              [@ EXCEPT !.pc = "done", !.result = "ok",
                        !.wrote = @ \cup {"payment"},
                        !.overwrote = me.raced /\ payments[me.i].status # me.doc.status]]
  /\ UNCHANGED <<enrollments, courses, now, last>>

\* The store the concurrent calls start from: Enrollment e1 of s1 in c1, and a
\* Payment for it created by u1.
ConcEnrollment ==
  createEnrollment(<<>>, [c \in Courses |-> [capacity |-> Capacity, totalEnrollments |-> 0]],
                   "s1", "c1")

ConcPayment ==
  createTransaction(<<>>, ConcEnrollment.enrollments,
                    [userId |-> "u1", amount |-> 150000, shape |-> TRUE,
                     enrollmentId |-> "e1"], "t1", 1, "none")

\* the gateway statuses of the concurrent calls
ConcStatuses == {<<"settlement", Undefined>>, <<"cancel", Undefined>>, <<"pending", Undefined>>}

VerifyCalls ==
  {[Idle EXCEPT !.op = "verifyPayment", !.pc = "gateway", !.result = "running",
                !.input = [id |-> Uuid("t1"), transaction_status |-> s[1],
                           fraud_status |-> s[2], payment_type |-> "qris",
                           settlement_time |-> NoDate]] : s \in ConcStatuses}

WebhookCalls ==
  {[Idle EXCEPT !.op = "processWebhook", !.pc = "findPayment", !.result = "running",
                !.input = [order_id |-> OrderIdOf("u1", 1), transaction_id |-> Uuid("t1"),
                           transaction_status |-> s[1], fraud_status |-> s[2],
                           payment_type |-> "qris"]] : s \in ConcStatuses}

ConcInit ==
  /\ payments = ConcPayment.payments
  /\ enrollments = ConcEnrollment.enrollments
  /\ courses = ConcEnrollment.courses
  /\ now = 1
  /\ last = NoCall
  /\ \E first \in VerifyCalls \cup WebhookCalls, second \in WebhookCalls :
       procs = [p \in Procs |-> IF p = 1 THEN first ELSE second]

ConcNext ==
  \E p \in Procs :
    \/ WebhookFindPayment(p)
    \/ WebhookSavePayment(p)
    \/ WebhookFindEnrollment(p)
    \/ WebhookSaveEnrollment(p)
    \/ WebhookCommit(p)
    \/ VerifyGatewayStatus(p)
    \/ VerifyFindPayment(p)
    \/ VerifyUpdateEnrollment(p)
    \/ VerifySavePayment(p)

ConcSpec == ConcInit /\ [][ConcNext]_vars

\* Every status the gateway may report, given to verifyPayment and to
\* processWebhook for one Payment and its Enrollment.
MapInit ==
  /\ payments = ConcPayment.payments
  /\ enrollments = ConcEnrollment.enrollments
  /\ courses = ConcEnrollment.courses
  /\ now = 1
  /\ last = NoCall
  /\ procs = [p \in Procs |-> Idle]

MapNext ==
  \/ \E result \in GatewayResults(GatewayStatuses, {"qris"}, {NoDate}) :
       VerifyPayment(Uuid("t1"), result, "none")
  \/ \E payload \in Payloads({OrderIdOf("u1", 1)}, {NoId}, GatewayStatuses, {"qris"}) :
       ProcessWebhook(payload, "none")

MapSpec == MapInit /\ [][MapNext]_vars

\* ---------------------------------------------------------------- createEnrollment calls in flight together
\* Two createEnrollment calls run as independent asynchronous tasks, with no
\* session; each awaited store call is one step.  A call's local values: its
\* input (studentId, courseId), pc, doc (the Course document as it read it)
\* and result.

\* the User collection the concurrent calls read
ConcStudents == {"s1", "s2"}

\* catch: log and rethrow
EnrollThrow(me, err) == [me EXCEPT !.pc = "done", !.result = err]

\* createEnrollment: User.findById(studentId)
EnrollFindStudent(p) ==
  /\ procs[p].op = "createEnrollment" /\ procs[p].pc = "findStudent"
  /\ procs' = [procs EXCEPT ![p] =
       IF @.input.studentId \notin ConcStudents THEN EnrollThrow(@, "NotFoundError")
       ELSE [@ EXCEPT !.pc = "findCourse"]]
  /\ UNCHANGED <<payments, enrollments, courses, now, last>>

\* createEnrollment: Course.findById(courseId); the document stays in memory
EnrollFindCourse(p) ==
  /\ procs[p].op = "createEnrollment" /\ procs[p].pc = "findCourse"
  /\ procs' = [procs EXCEPT ![p] =
       IF @.input.courseId \notin DOMAIN courses THEN EnrollThrow(@, "NotFoundError")
       ELSE [@ EXCEPT !.pc = "findExisting", !.doc = courses[procs[p].input.courseId]]]
  /\ UNCHANGED <<payments, enrollments, courses, now, last>>

\* createEnrollment: Enrollment.findOne({ studentId, courseId })
EnrollFindExisting(p) ==
  /\ procs[p].op = "createEnrollment" /\ procs[p].pc = "findExisting"
  /\ LET me == procs[p]
         existing == \E e \in DOMAIN enrollments :
                       /\ enrollments[e].studentId = me.input.studentId
                       /\ enrollments[e].courseId = me.input.courseId
     IN  procs' = [procs EXCEPT ![p] =
           IF existing THEN EnrollThrow(@, "ConflictError")
           ELSE [@ EXCEPT !.pc = "count"]]
  /\ UNCHANGED <<payments, enrollments, courses, now, last>>

\* enrollmentCount >= course.capacity
EnrollCourseFull(enrollmentCount, course) == enrollmentCount >= course.capacity

\* createEnrollment: Enrollment.countDocuments({ courseId }) and the capacity
\* check against the Course document in memory
EnrollCount(p) ==
  /\ procs[p].op = "createEnrollment" /\ procs[p].pc = "count"
  /\ LET me == procs[p]
         enrollmentCount ==
           Cardinality({e \in DOMAIN enrollments :
                          enrollments[e].courseId = me.input.courseId})
     IN  procs' = [procs EXCEPT ![p] =
           IF EnrollCourseFull(enrollmentCount, me.doc) THEN EnrollThrow(@, "ConflictError")
           ELSE [@ EXCEPT !.pc = "saveEnrollment"]]
  /\ UNCHANGED <<payments, enrollments, courses, now, last>>

\* createEnrollment: enrollment.save()
EnrollSaveEnrollment(p) ==
  /\ procs[p].op = "createEnrollment" /\ procs[p].pc = "saveEnrollment"
  /\ LET me == procs[p]
         id == EnrollmentIds[Cardinality(DOMAIN enrollments) + 1]
         enrollment == [studentId |-> me.input.studentId, courseId |-> me.input.courseId,
                        status |-> "pending_payment", progress |-> 0]
     IN  /\ enrollments' = [e \in DOMAIN enrollments \cup {id} |->
                              IF e = id THEN enrollment ELSE enrollments[e]]
         /\ procs' = [procs EXCEPT ![p].pc = "saveCourse",
                                   ![p].wrote = @ \cup {"enrollment"}]
  /\ UNCHANGED <<payments, courses, now, last>>

\* course.totalEnrollments = (course.totalEnrollments || 0) + 1, on the
\* document in memory; course.save() then sets the stored field to that value
EnrollIncrementRead(stored, doc) == doc.totalEnrollments + 1

\* createEnrollment: course.save()
EnrollSaveCourse(p) ==
  /\ procs[p].op = "createEnrollment" /\ procs[p].pc = "saveCourse"
  /\ LET me == procs[p]
         c == me.input.courseId
     IN  /\ courses' = [courses EXCEPT ![c].totalEnrollments =
                          EnrollIncrementRead(@, me.doc)]
         /\ procs' = [procs EXCEPT ![p] =
              [@ EXCEPT !.pc = "done", !.result = "ok", !.wrote = @ \cup {"course"}]]
  /\ UNCHANGED <<payments, enrollments, now, last>>

\* the createEnrollment calls a handler may be given
EnrollCalls(students) ==
  {[Idle EXCEPT !.op = "createEnrollment", !.pc = "findStudent", !.result = "running",
                !.input = [studentId |-> s, courseId |-> c]] :
     s \in students, c \in Courses \cup {"c0"}}

\* An empty Enrollment collection, one Course of some capacity, and two calls
\* for different students.
EnrollInit ==
  /\ payments = <<>>
  /\ enrollments = <<>>
  /\ \E capacity \in 1..Capacity :
       courses = [c \in Courses |-> [capacity |-> capacity, totalEnrollments |-> 0]]
  /\ now = 1
  /\ last = NoCall
  /\ \E first \in EnrollCalls({"s1", "s0"}), second \in EnrollCalls({"s2"}) :
       procs = [p \in Procs |-> IF p = 1 THEN first ELSE second]

EnrollNext ==
  \E p \in Procs :
    \/ EnrollFindStudent(p)
    \/ EnrollFindCourse(p)
    \/ EnrollFindExisting(p)
    \/ EnrollCount(p)
    \/ EnrollSaveEnrollment(p)
    \/ EnrollSaveCourse(p)

EnrollSpec == EnrollInit /\ [][EnrollNext]_vars

\* ---------------------------------------------------------------- claims

\* A step made by a service call; last' then describes that call.
CallStep == last' # last \/ payments' # payments \/ enrollments' # enrollments

\* the Enrollment a Payment names, when it exists
HasEnrollment(ps, es, i) == i # 0 /\ ps[i].enrollmentId \in DOMAIN es

\* C1: a processWebhook run that directly follows a successful run for the same
\* Payment with the same mapped status (the same payload delivered again)
\* writes nothing: the Payment and the Enrollment stay as the first run left them.
C1_WebhookRedeliveryWritesNothing ==
  [][(/\ CallStep
      /\ last.op = "processWebhook" /\ last.ok
      /\ last'.op = "processWebhook"
      /\ last'.pi = last.pi /\ last'.st = last.st)
     => (/\ last'.wrote = {}
         /\ payments' = payments
         /\ enrollments' = enrollments)]_vars

\* a redelivered settlement has been processed successfully
C1_Witness ==
  /\ last.op = "processWebhook" /\ last.ok /\ last.rep
  /\ IsSettled(last.st) /\ last.wrote = {}
  /\ HasEnrollment(payments, enrollments, last.pi)

\* C2: every successful processWebhook whose mapped status is SETTLEMENT or
\* CAPTURE and differs from the stored one leaves the Payment in that status
\* and the Enrollment named by Payment.enrollmentId active with progress 0.
\* The code skips the Enrollment when Enrollment.findById returns null, and
\* createTransaction stores whatever enrollmentId the request carries.
C2_SettlementActivatesEnrollment ==
  [][(/\ CallStep
      /\ last'.op = "processWebhook" /\ last'.ok /\ IsSettled(last'.st)
      /\ payments[last'.pi].status # last'.st)
     => (/\ payments'[last'.pi].status = last'.st
         /\ HasEnrollment(payments', enrollments', last'.pi)
         /\ enrollments'[payments'[last'.pi].enrollmentId].status = "active"
         /\ enrollments'[payments'[last'.pi].enrollmentId].progress = 0)]_vars

\* C3: a processWebhook that throws has aborted its transaction, and the
\* Payment and Enrollment collections are what they were before the call.
C3_WebhookFailureRollsBack ==
  [][(CallStep /\ last'.op = "processWebhook" /\ ~last'.ok)
     => (/\ last'.txn = "aborted"
         /\ last'.wrote = {}
         /\ payments' = payments
         /\ enrollments' = enrollments)]_vars

\* the commit of a settlement that had saved the Payment and the Enrollment
\* under the session was rejected
C3_Witness ==
  /\ last.op = "processWebhook" /\ ~last.ok /\ last.err = "commit"
  /\ last.txn = "aborted" /\ IsSettled(last.st)
  /\ payments[last.pi].status = PENDING
  /\ HasEnrollment(payments, enrollments, last.pi)
  /\ enrollments[payments[last.pi].enrollmentId].status = "pending_payment"

\* C4: a successful verifyPayment with gateway status settlement on a PENDING
\* Payment whose Enrollment is pending_payment writes both, leaving SETTLEMENT
\* and active with progress 0; every verifyPayment with gateway status
\* settlement on a Payment already in SETTLEMENT writes nothing, whatever the
\* Enrollment's progress has become.
C4_VerifySettlementOnce ==
  [][(CallStep /\ last'.op = "verifyPayment" /\ last'.st = SETTLEMENT /\ last'.pi # 0)
     => (/\ (/\ last'.ok
             /\ payments[last'.pi].status = PENDING
             /\ HasEnrollment(payments, enrollments, last'.pi)
             /\ enrollments[payments[last'.pi].enrollmentId].status = "pending_payment")
            => (/\ payments'[last'.pi].status = SETTLEMENT
                /\ enrollments'[payments[last'.pi].enrollmentId].status = "active"
                /\ enrollments'[payments[last'.pi].enrollmentId].progress = 0
                /\ last'.wrote = {"payment", "enrollment"})
         /\ payments[last'.pi].status = SETTLEMENT
            => (/\ last'.wrote = {}
                /\ payments' = payments
                /\ enrollments' = enrollments))]_vars

\* a verifyPayment with gateway status settlement returned success without
\* writing, on a settled Payment whose Enrollment's progress had been raised
C4_Witness ==
  /\ last.op = "verifyPayment" /\ last.ok /\ last.st = SETTLEMENT /\ last.wrote = {}
  /\ last.pi # 0 /\ payments[last.pi].status = SETTLEMENT
  /\ HasEnrollment(payments, enrollments, last.pi)
  /\ enrollments[payments[last.pi].enrollmentId].status = "active"
  /\ enrollments[payments[last.pi].enrollmentId].progress = 50

\* C5: a verifyPayment whose gateway status maps to CANCEL or EXPIRE
\* moves the Enrollment to cancelled only from pending_payment and leaves an
\* active or completed Enrollment unchanged.  verifyPayment's
\* findByIdAndUpdate carries no condition on the current status.
C5_VerifyCancelNeverDowngrades ==
  [][(/\ CallStep
      /\ last'.op = "verifyPayment" /\ IsCancelled(last'.st)
      /\ HasEnrollment(payments, enrollments, last'.pi))
     => LET eid == payments[last'.pi].enrollmentId
        IN  /\ enrollments[eid].status \in {"active", "completed"}
               => enrollments'[eid] = enrollments[eid]
            /\ enrollments'[eid].status # enrollments[eid].status
               => enrollments[eid].status = "pending_payment"]_vars

\* C6: a createTransaction that returns success has added exactly one Payment,
\* in PENDING with the enrollmentId of the request, whose transactionId and
\* orderId differ from those of every Payment created before it (a request of
\* the same user in the same millisecond does not return success).
C6_CreatedPaymentIsUnique ==
  [][(CallStep /\ last'.op = "createTransaction" /\ last'.ok)
     => (/\ Len(payments') = Len(payments) + 1
         /\ SubSeq(payments', 1, Len(payments)) = payments
         /\ payments'[Len(payments')].status = PENDING
         /\ payments'[Len(payments')].enrollmentId = last'.req.enrollmentId
         /\ \A i \in DOMAIN payments :
              /\ payments[i].transactionId # payments'[Len(payments')].transactionId
              /\ payments[i].orderId # payments'[Len(payments')].orderId)]_vars

\* a second Payment of the same user has been created
C6_Witness ==
  /\ last.op = "createTransaction" /\ last.ok
  /\ Len(payments) = 2
  /\ payments[1].userId = payments[2].userId
  /\ payments[2].status = PENDING

\* C7: a createTransaction that throws leaves the Payment collection as it was;
\* it throws when validation fails and when the gateway call, the save or the
\* commit rejects; it returns success only with the Payment committed.
C7_CreateLeavesNoPartialState ==
  [][(CallStep /\ last'.op = "createTransaction")
     => (/\ ~last'.ok => (payments' = payments /\ last'.wrote = {})
         /\ last'.ok => (/\ last'.txn = "committed"
                         /\ Len(payments') = Len(payments) + 1
                         /\ validateTransactionRequest(last'.req)
                         /\ validateAmount(last'.req.amount)
                         /\ last'.req.enrollmentId # Null)
         /\ last'.err # Null => ~last'.ok)]_vars

\* the gateway call and the save succeeded and the commit was rejected
C7_Witness ==
  /\ last.op = "createTransaction" /\ ~last.ok
  /\ last.err = "commit" /\ last.gateway /\ last.txn = "aborted"

\* C8: createTransaction rejects an amount below 1000 or above 999999999 with a
\* ValidationError, before the gateway call and with no Payment saved; an
\* amount is accepted only if isPaymentEligible holds of it, and no request with
\* an eligible amount, a valid shape and an enrollmentId fails validation.
C8_AmountBounds ==
  [][(CallStep /\ last'.op = "createTransaction")
     => (/\ (last'.req.amount < 1000 \/ last'.req.amount > 999999999)
            => (/\ ~last'.ok /\ last'.err = "ValidationError"
                /\ ~last'.gateway
                /\ payments' = payments)
         /\ last'.ok => isPaymentEligible(last'.req.amount)
         /\ (/\ isPaymentEligible(last'.req.amount)
             /\ last'.req.shape /\ last'.req.enrollmentId # Null)
            => last'.err # "ValidationError")]_vars

\* a well-formed request for 999 was rejected before the gateway call
C8_Witness ==
  /\ last.op = "createTransaction" /\ ~last.ok /\ last.err = "ValidationError"
  /\ last.req.amount = 999 /\ last.req.shape /\ last.req.enrollmentId # Null
  /\ ~last.gateway

\* no Payment carries the orderId or the transactionId of the lookup key
MatchesNone(ps, key) ==
  \A i \in DOMAIN ps : ps[i].orderId # key[1] /\ ps[i].transactionId # key[2]

\* C15: a processWebhook whose order_id and transaction_id match no Payment
\* throws (NotFoundError, unless the lookup itself was rejected), has aborted
\* its transaction, and leaves every Payment and every Enrollment unchanged;
\* NotFoundError is thrown only for such a payload.  The lookup is made once.
C15_WebhookUnknownPaymentNotFound ==
  [][(CallStep /\ last'.op = "processWebhook")
     => (/\ MatchesNone(payments, last'.key)
            => (/\ ~last'.ok
                /\ last'.err \in {"NotFoundError", "findPayment"}
                /\ last'.txn = "aborted"
                /\ last'.wrote = {}
                /\ payments' = payments
                /\ enrollments' = enrollments)
         /\ last'.err = "NotFoundError" => MatchesNone(payments, last'.key))]_vars

\* a webhook for an unknown order was rejected while a Payment and its
\* Enrollment were in the store
C15_Witness ==
  /\ last.op = "processWebhook" /\ ~last.ok /\ last.err = "NotFoundError"
  /\ last.txn = "aborted"
  /\ payments # <<>> /\ MatchesNone(payments, last.key)
  /\ HasEnrollment(payments, enrollments, 1)

\* C16: a verifyPayment whose gateway call and lookup were answered, called
\* with an identifier that is neither the transactionId nor the orderId of any
\* Payment, returns success with the mapped status and changes no Payment and
\* no Enrollment; called with the transactionId or the orderId of a Payment it
\* works on that Payment, and a successful call leaves it in the mapped status.
C16_VerifyLookupByEitherIdentifier ==
  [][(/\ CallStep
      /\ last'.op = "verifyPayment"
      /\ last'.err \notin {"GatewayError", "findPayment"})
     => (/\ MatchesNone(payments, last'.key)
            => (/\ last'.ok /\ last'.pi = 0 /\ last'.wrote = {}
                /\ payments' = payments
                /\ enrollments' = enrollments)
         /\ ~MatchesNone(payments, last'.key)
            => (/\ last'.pi \in DOMAIN payments
                /\ \/ payments[last'.pi].transactionId = last'.key[2]
                   \/ payments[last'.pi].orderId = last'.key[1]
                /\ last'.ok => payments'[last'.pi].status = last'.st))]_vars

\* a verifyPayment for an identifier no Payment carries returned a settled
\* status while a PENDING Payment and its Enrollment were in the store
C16_Witness ==
  /\ last.op = "verifyPayment" /\ last.ok /\ last.pi = 0 /\ IsSettled(last.st)
  /\ payments # <<>> /\ MatchesNone(payments, last.key)
  /\ payments[1].status = PENDING
  /\ HasEnrollment(payments, enrollments, 1)
  /\ enrollments[payments[1].enrollmentId].status = "pending_payment"

\* C18: a successful processWebhook whose mapped status is CANCEL or EXPIRE
\* and differs from the stored one leaves the Payment in that status; it sets
\* the Enrollment to cancelled when the Enrollment was pending_payment, and
\* leaves an active, completed or already cancelled Enrollment as it was.
C18_WebhookCancelsOnlyPendingEnrollment ==
  [][(/\ CallStep
      /\ last'.op = "processWebhook" /\ last'.ok /\ IsCancelled(last'.st)
      /\ payments[last'.pi].status # last'.st
      /\ HasEnrollment(payments, enrollments, last'.pi))
     => LET eid == payments[last'.pi].enrollmentId
        IN  /\ payments'[last'.pi].status = last'.st
            /\ enrollments' =
                 IF enrollments[eid].status = "pending_payment"
                 THEN [enrollments EXCEPT ![eid].status = "cancelled"]
                 ELSE enrollments]_vars

\* a cancel or expire webhook has updated the Payment of a completed
\* Enrollment and left the Enrollment completed
C18_Witness ==
  /\ last.op = "processWebhook" /\ last.ok /\ IsCancelled(last.st)
  /\ last.wrote = {"payment"}
  /\ payments[last.pi].status = last.st
  /\ HasEnrollment(payments, enrollments, last.pi)
  /\ enrollments[payments[last.pi].enrollmentId].status = "completed"

\* C19: a verifyPayment that throws leaves the Payment and the Enrollment
\* equal to their values before the call.  verifyPayment updates the
\* Enrollment with findByIdAndUpdate and then saves the Payment, outside any
\* session: a rejected payment.save() leaves the Enrollment updated.
C19_VerifyFailureLeavesNoPartialState ==
  [][(CallStep /\ last'.op = "verifyPayment" /\ ~last'.ok)
     => (payments' = payments /\ enrollments' = enrollments)]_vars

\* C20: a processWebhook or verifyPayment whose mapped status is SETTLEMENT or
\* CAPTURE, for a Payment whose Enrollment is already active, leaves the
\* Enrollment's status and progress as they were.  Both calls set progress
\* to 0 whenever the mapped status differs from the stored one.
C20_ActivationKeepsActiveEnrollment ==
  [][(/\ CallStep
      /\ last'.op \in {"processWebhook", "verifyPayment"} /\ IsSettled(last'.st)
      /\ HasEnrollment(payments, enrollments, last'.pi)
      /\ enrollments[payments[last'.pi].enrollmentId].status = "active")
     => LET eid == payments[last'.pi].enrollmentId
        IN  /\ enrollments'[eid].status = enrollments[eid].status
            /\ enrollments'[eid].progress = enrollments[eid].progress]_vars

\* the gateway statuses the mapping names
MappedGatewayStatuses ==
  {"capture", "settlement", "pending", "deny", "cancel", "expire", "refund",
   "partial_refund"}

\* C17: the status verifyPayment and processWebhook compute from the gateway's
\* (transaction_status, fraud_status) is a value of the PaymentStatus enum
\* fixed by the pair: settlement gives SETTLEMENT, capture with fraud status
\* accept CAPTURE, pending PENDING, deny DENY, cancel CANCEL, expire EXPIRE,
\* refund REFUND, partial_refund PARTIAL_REFUND and every other status string
\* FAILED; a successful call leaves its Payment in the computed status.
C17_StatusMappingIsTotal ==
  [][(CallStep /\ last'.op \in {"verifyPayment", "processWebhook"})
     => LET ts == last'.raw[1]
            fs == last'.raw[2]
        IN  /\ last'.st \in PaymentStatus
            /\ ts = "settlement" => last'.st = SETTLEMENT
            /\ (ts = "capture" /\ fs = "accept") => last'.st = CAPTURE
            /\ ts = "pending" => last'.st = PENDING
            /\ ts = "deny" => last'.st = DENY
            /\ ts = "cancel" => last'.st = CANCEL
            /\ ts = "expire" => last'.st = EXPIRE
            /\ ts = "refund" => last'.st = REFUND
            /\ ts = "partial_refund" => last'.st = PARTIAL_REFUND
            /\ ts \notin MappedGatewayStatuses => last'.st = FAILED
            /\ (last'.ok /\ last'.pi # 0) => payments'[last'.pi].status = last'.st
            /\ \A i \in DOMAIN payments' : payments'[i].status \in PaymentStatus]_vars

\* a verifyPayment given a status string the mapping does not name has left
\* its Payment in FAILED
C17_Witness ==
  /\ last.op = "verifyPayment" /\ last.ok /\ last.raw[1] = "unknown_code"
  /\ last.pi # 0 /\ payments[last.pi].status = FAILED
  /\ last.wrote = {"payment"}

\* the status each administrative operation sets
AdminStatus(call) ==
  CASE call.op = "cancelTransaction" -> CANCEL
    [] call.op = "expireTransaction" -> EXPIRE
    [] call.op = "refundTransaction" ->
         IF call.req.amount # 0 THEN PARTIAL_REFUND ELSE REFUND

\* C14: cancelTransaction, expireTransaction and refundTransaction change a
\* Payment only after their gateway call succeeded, and then only the status of
\* the Payment with the given transactionId, to CANCEL, EXPIRE, and
\* PARTIAL_REFUND or REFUND (an amount given or not); a call whose gateway call
\* fails throws and changes no Payment; none of them changes an Enrollment.
C14_GatewayBeforeLocalStatus ==
  [][(/\ CallStep
      /\ last'.op \in {"cancelTransaction", "expireTransaction", "refundTransaction"})
     => (/\ enrollments' = enrollments
         /\ last'.gateway
         /\ last'.err = "GatewayError" => ~last'.ok
         /\ ~last'.ok => (last'.err # Null /\ payments' = payments)
         /\ last'.ok =>
              IF last'.pi = 0
              THEN payments' = payments
              ELSE /\ payments[last'.pi].transactionId = last'.key[2]
                   /\ payments' =
                        [payments EXCEPT ![last'.pi].status = AdminStatus(last')])]_vars

\* a refund of a settled Payment was rejected by the gateway and the Payment
\* is still settled
C14_Witness ==
  /\ last.op = "refundTransaction" /\ ~last.ok /\ last.err = "GatewayError"
  /\ payments # <<>> /\ payments[1].transactionId = last.key[2]
  /\ payments[1].status = SETTLEMENT

\* C21: cancelTransaction, expireTransaction and refundTransaction leave
\* every Enrollment's status and progress as they were, whether the call
\* returns or throws and whatever the status of the Enrollment of the Payment
\* they update.
C21_AdminLeavesEnrollments ==
  [][(/\ CallStep
      /\ last'.op \in {"cancelTransaction", "expireTransaction", "refundTransaction"})
     => (/\ DOMAIN enrollments' = DOMAIN enrollments
         /\ \A e \in DOMAIN enrollments :
              /\ enrollments'[e].status = enrollments[e].status
              /\ enrollments'[e].progress = enrollments[e].progress
         /\ "enrollment" \notin last'.wrote)]_vars

\* a cancelTransaction has set the Payment of an active Enrollment with
\* progress 50 to CANCEL, and the Enrollment is as it was
C21_Witness ==
  /\ last.op = "cancelTransaction" /\ last.ok /\ last.pi # 0
  /\ payments[last.pi].status = CANCEL
  /\ HasEnrollment(payments, enrollments, last.pi)
  /\ enrollments[payments[last.pi].enrollmentId].status = "active"
  /\ enrollments[payments[last.pi].enrollmentId].progress = 50

\* C22: no two Payments with the same enrollmentId are both PENDING.
\* createTransaction reads no Payment before it saves the new one, and the
\* index on (enrollmentId, status) is not unique.
C22_OnePendingPaymentPerEnrollment ==
  \A i, j \in DOMAIN payments :
    (i # j /\ payments[i].enrollmentId = payments[j].enrollmentId)
    => ~(payments[i].status = PENDING /\ payments[j].status = PENDING)

\* C23: after a successful createTransaction the token and the redirect URL
\* stored on the new Payment are the gateway's token and redirect_url, and
\* getTransaction for its transactionId returns the snapToken and redirectUrl
\* that createTransaction returned.  The constructor is given the token under
\* the key snapToken, which the schema does not have; the stored field is
\* midtransToken.
C23_GatewayResultStored ==
  [][(CallStep /\ last'.op = "createTransaction" /\ last'.ok)
     => LET payment == payments'[last'.pi]
            found == getTransaction(payments', payment.transactionId)
            returned == CreatePaymentResponse(SnapResult)
        IN  /\ payment.midtransToken = SnapResult.token
            /\ payment.redirectUrl = SnapResult.redirect_url
            /\ FindOne(payments', payment.transactionId, payment.transactionId) # 0
            /\ found.snapToken = returned.snapToken
            /\ found.redirectUrl = returned.redirectUrl]_vars

\* C24: no processWebhook or verifyPayment call sets a Payment whose status is
\* SETTLEMENT or CAPTURE back to PENDING.  Both calls store whatever mapped
\* status differs from the stored one; a 'pending' notification that arrives
\* after the settlement is stored like any other.
C24_SettledPaymentNeverPendingAgain ==
  [][(CallStep /\ last'.op \in {"processWebhook", "verifyPayment"})
     => \A i \in DOMAIN payments :
          IsSettled(payments[i].status) => payments'[i].status # PENDING]_vars

\* C25: a processWebhook or verifyPayment whose mapped status is SETTLEMENT or
\* CAPTURE, for a Payment whose Enrollment is completed or cancelled, leaves
\* the Enrollment's status and progress as they were.  Both calls activate
\* whatever Enrollment they find, with no condition on its status.
C25_SettlementKeepsFinishedEnrollment ==
  [][(/\ CallStep
      /\ last'.op \in {"processWebhook", "verifyPayment"} /\ IsSettled(last'.st)
      /\ HasEnrollment(payments, enrollments, last'.pi)
      /\ enrollments[payments[last'.pi].enrollmentId].status \in {"completed", "cancelled"})
     => LET eid == payments[last'.pi].enrollmentId
        IN  /\ enrollments'[eid].status = enrollments[eid].status
            /\ enrollments'[eid].progress = enrollments[eid].progress]_vars

\* no Payment carries the identifier as its transactionId
NoTransactionId(ps, id) == \A i \in DOMAIN ps : ps[i].transactionId # id

\* C27: cancelTransaction, expireTransaction and refundTransaction select the
\* Payment by transactionId only: called with an identifier that is no
\* Payment's transactionId (the orderId of a Payment included) they change no
\* Payment, and return without error when the gateway call and the update
\* call were answered; a call that changes a Payment was given that Payment's
\* transactionId.
C27_AdminSelectsByTransactionIdOnly ==
  [][(/\ CallStep
      /\ last'.op \in {"cancelTransaction", "expireTransaction", "refundTransaction"})
     => (/\ NoTransactionId(payments, last'.key[2])
            => (/\ payments' = payments
                /\ last'.wrote = {}
                /\ last'.gateway
                /\ last'.err \notin {"GatewayError", "update"}
                   => (last'.ok /\ last'.err = Null /\ last'.pi = 0))
         /\ \A i \in DOMAIN payments :
              payments'[i] # payments[i] => payments[i].transactionId = last'.key[2])]_vars

\* a cancelTransaction given the orderId of a PENDING Payment returned
\* without error and the Payment is still PENDING
C27_Witness ==
  /\ last.op = "cancelTransaction" /\ last.ok /\ last.pi = 0 /\ last.gateway
  /\ payments # <<>>
  /\ payments[1].orderId = last.key[2]
  /\ payments[1].status = PENDING

\* C28: no operation removes a Payment or changes the transactionId, orderId,
\* enrollmentId, userId or amount of a Payment that exists.  The legacy
\* updatePaymentStatus assigns payment.transactionId whenever it is given one.
C28_PaymentIdentityNeverChanges ==
  [][/\ Len(payments') >= Len(payments)
     /\ \A i \in DOMAIN payments :
          /\ payments'[i].transactionId = payments[i].transactionId
          /\ payments'[i].orderId = payments[i].orderId
          /\ payments'[i].enrollmentId = payments[i].enrollmentId
          /\ payments'[i].userId = payments[i].userId
          /\ payments'[i].amount = payments[i].amount]_vars

\* C29: after every step of createTransaction, verifyPayment, processWebhook,
\* cancelTransaction, expireTransaction and refundTransaction, a Payment in
\* SETTLEMENT or CAPTURE has paidAt set, and paidAt is set only on a Payment
\* that the step leaves in SETTLEMENT or CAPTURE or that had it set before: a
\* Payment that has never been settled has paidAt unset.
C29_PaidAtIffEverSettled ==
  [][\A i \in DOMAIN payments' :
       /\ IsSettled(payments'[i].status) => payments'[i].paidAt # NoDate
       /\ payments'[i].paidAt # NoDate
          => \/ IsSettled(payments'[i].status)
             \/ i \in DOMAIN payments /\ payments[i].paidAt # NoDate]_vars

\* a Payment settled by verifyPayment at the gateway's settlement time has
\* been refunded later and keeps its paidAt
C29_Witness ==
  /\ last.op = "refundTransaction" /\ last.ok /\ last.pi # 0
  /\ payments[last.pi].status \in {REFUND, PARTIAL_REFUND}
  /\ payments[last.pi].paidAt = 1 /\ now = 2

\* C11: whenever an operation moves an Enrollment to active, a Payment of that
\* Enrollment is in a settled status (SETTLEMENT or CAPTURE, or completed in
\* the legacy service) once the operation has returned.
\* updateEnrollmentStatus sets whatever status it is given and reads no Payment.
C11_ActiveOnlyAfterSettledPayment ==
  [][\A e \in DOMAIN enrollments' :
       (/\ enrollments'[e].status = "active"
        /\ e \in DOMAIN enrollments => enrollments[e].status # "active")
       => \E i \in DOMAIN payments' :
            /\ payments'[i].enrollmentId = e
            /\ payments'[i].status \in {SETTLEMENT, CAPTURE, COMPLETED}]_vars

\* C12: an operation moves an Enrollment to completed only from active and only
\* with progress 100.  updateProgress completes an Enrollment in any status
\* when the progress is 100, and updateEnrollmentStatus sets completed at any
\* progress.
C12_CompletedOnlyFromActiveAtFullProgress ==
  [][\A e \in DOMAIN enrollments :
       (enrollments'[e].status = "completed" /\ enrollments[e].status # "completed")
       => (enrollments[e].status = "active" /\ enrollments'[e].progress = 100)]_vars

\* ---------------------------------------------------------------- claims on concurrent calls
BothDoneEnrolling ==
  \A p \in Procs : procs[p].op = "createEnrollment" /\ procs[p].pc = "done"

\* the Enrollments of a course
EnrollmentsOf(c) == {e \in DOMAIN enrollments : enrollments[e].courseId = c}

\* C26: the number of Enrollments of a course never exceeds the course's
\* capacity, also when createEnrollment calls for the same course run
\* concurrently.  Each call counts and then saves with no session: two calls
\* that count before either saves both pass the capacity test.
C26_EnrollmentsWithinCapacity ==
  \A c \in DOMAIN courses : Cardinality(EnrollmentsOf(c)) <= courses[c].capacity

\* C30: once the createEnrollment calls have returned, Course.totalEnrollments
\* is the number of Enrollments they created for the course.  Each call adds 1
\* to the value it read and saves that: of two calls that read the same value
\* one increment is lost.
C30_TotalEnrollmentsCountsCreated ==
  BothDoneEnrolling =>
    \A c \in DOMAIN courses : courses[c].totalEnrollments = Cardinality(EnrollmentsOf(c))

BothDone == \A p \in Procs : procs[p].pc = "done"

BothCancelWebhooks ==
  \A p \in Procs : /\ procs[p].op = "processWebhook"
                   /\ procs[p].input.transaction_status = "cancel"

\* C9: when two processWebhook calls for the same Payment, both carrying status
\* "cancel", run concurrently against a PENDING Payment whose Enrollment is
\* pending_payment, then once both have returned the Payment is CANCEL, the
\* Enrollment is cancelled, and exactly one of the two calls committed the
\* write that cancelled the Enrollment.
C9_ConcurrentCancelWebhooks ==
  (BothCancelWebhooks /\ BothDone) =>
    /\ payments[1].status = CANCEL
    /\ enrollments["e1"].status = "cancelled"
    /\ Cardinality({p \in Procs : "enrollment" \in procs[p].wrote}) = 1

\* the two calls overlapped: one of them was rejected by the store and aborted
C9_Witness ==
  /\ BothCancelWebhooks /\ BothDone
  /\ \E p \in Procs : procs[p].result = "error"
  /\ \E p \in Procs : procs[p].wrote = {"payment", "enrollment"}

\* the outcome of running the two calls one after the other on the initial store
SerialVerifyThenWebhook ==
  LET v == verifyPayment(ConcPayment.payments, ConcEnrollment.enrollments, 1,
                         procs[1].input.id, procs[1].input, "none")
      w == processWebhook(v.payments, v.enrollments, 1, procs[2].input, "none")
  IN  <<w.payments[1].status, w.enrollments["e1"].status>>

SerialWebhookThenVerify ==
  LET w == processWebhook(ConcPayment.payments, ConcEnrollment.enrollments, 1,
                          procs[2].input, "none")
      v == verifyPayment(w.payments, w.enrollments, 1,
                         procs[1].input.id, procs[1].input, "none")
  IN  <<v.payments[1].status, v.enrollments["e1"].status>>

\* C10: when a verifyPayment call and a processWebhook call for the same
\* Payment run concurrently, then once both have returned the Payment status
\* and the Enrollment status are those of one of the two serial orders of the
\* calls, and a verifyPayment that held its gateway status before the webhook
\* committed has not overwritten the status the webhook committed.
\* verifyPayment runs outside any session, on the document as it read it.
C10_VerifyAndWebhookSerializable ==
  (procs[1].op = "verifyPayment" /\ procs[2].op = "processWebhook" /\ BothDone) =>
    /\ <<payments[1].status, enrollments["e1"].status>>
         \in {SerialVerifyThenWebhook, SerialWebhookThenVerify}
    /\ ~procs[1].overwrote

====
